---- MODULE Spec2Model ----
(***************************************************************************)
(* Model of graphGenerator/main.py: load_config, load_dataframe,           *)
(* generate_graph and main, together with the part of matplotlib.pyplot's  *)
(* figure registry (the stack of open figures and the "current figure")    *)
(* that generate_graph drives through plt.clf, plt.figure, plt.plot/       *)
(* scatter/bar, plt.savefig and plt.close.                                 *)
(***************************************************************************)
EXTENDS Integers, Sequences, FiniteSets, TLC

\* Longest `graphs` list of a configuration document that is explored.
MaxGraphs == 2

\* ------------------------------------------------------------------ inputs

\* The kinds a ChartSpec may carry: the four dispatched on, and one other.
SupportedKinds == {"line", "plot", "scatter", "bar"}
Kinds == SupportedKinds \cup {"pie"}

\* Column sets of the CSV files the run may find on disk.
Tables == {{"a", "b", "c"}, {"a", "b"}, {"b", "c"}}

\* figure_size is an optional key: "absent", or a width/height pair.
FigureSizes == {"absent", "8x6"}
DefaultSize == "default"

\* One entry of config['graphs'].  title and output_file are taken to be
\* distinct per entry and are identified with the entry's position.
\* Entries of either x_column, with and without figure_size, of a supported
\* and an unsupported kind; entries whose first y_column a table may lack;
\* and one entry of every other supported kind.
ChartSpecs ==
    [kind : {"line", "pie"}, x_column : {"a", "c"},
     y_columns : {<<"b", "c">>}, figure_size : FigureSizes]
    \cup
    [kind : {"line", "pie"}, x_column : {"a"},
     y_columns : {<<"c", "b">>}, figure_size : {"absent"}]
    \cup
    [kind : Kinds \ {"line", "pie"}, x_column : {"a"},
     y_columns : {<<"b", "c">>}, figure_size : {"absent"}]

Configs == UNION {[1..n -> ChartSpecs] : n \in 0..MaxGraphs}

InputPath == "input.csv"
ExamplesPath == "data/examples.csv"
FibonacciPath == "data/fibonacci.csv"
Paths == {InputPath, ExamplesPath, FibonacciPath}

\* ------------------------------------------------------------------- state

VARIABLES
    pc,        \* main's position
    input,     \* args.input was given
    config,    \* config['graphs']
    df,        \* path -> column names of the table read from it ({}: not read)
    work,      \* the list the current for-loop iterates (positions in config)
    i,         \* position of the current for-loop in work
    gg,        \* position inside generate_graph ("idle" outside a call)
    arg,       \* the (path, position in config) pair generate_graph was given
    yi,        \* position of generate_graph's loop in y_columns
    figs,      \* pyplot's open figures, the current figure last
    exc,       \* exception that ended the process ("none" while none did)
    exitCode,  \* process exit status (-1 while running)
    printed,   \* messages written to standard output
    calls,     \* log of generate_graph invocations: <<path, position>>
    results,   \* how each finished generate_graph call ended, in order
    files,     \* positions in config whose output_file has been written
    dirs,      \* positions in config whose output directory has been made
    lastSaved  \* the figure handed to the latest successful savefig

vars == <<pc, input, config, df, work, i, gg, arg, yi, figs, exc, exitCode,
          printed, calls, results, files, dirs, lastSaved>>

histVars == <<calls, files, dirs, lastSaved>>

NoFigure == [size |-> "none", series |-> <<>>, title |-> 0]
NoArg == <<"", 0>>

Init ==
    /\ pc = "parse_args"
    /\ input = FALSE
    /\ config = <<>>
    /\ df = [p \in Paths |-> {}]
    /\ work = <<>>
    /\ i = 1
    /\ gg = "idle"
    /\ arg = NoArg
    /\ yi = 1
    /\ figs = <<>>
    /\ exc = "none"
    /\ exitCode = -1
    /\ printed = {}
    /\ calls = <<>>
    /\ results = <<>>
    /\ files = {}
    /\ dirs = {}
    /\ lastSaved = NoFigure

\* ---------------------------------------------------------------- helpers

Running == exc = "none" /\ exitCode = -1

\* sys.exit(1) after print(msg).
SysExit(msg) ==
    /\ printed' = printed \cup {msg}
    /\ exc' = "SystemExit"
    /\ exitCode' = 1
    /\ pc' = "exit"

\* An exception nobody catches: the interpreter prints a traceback and the
\* process ends with status 1.
Uncaught(e) ==
    /\ exc' = e
    /\ exitCode' = 1
    /\ pc' = "exit"

\* for graph in config['graphs']
AllGraphs == [k \in 1..Len(config) |-> k]

\* Matching without its condition: every entry is kept.
Matching_unfiltered(cols) == AllGraphs

\* [g for g in config['graphs'] if g['x_column'] in df.columns]
Matching(cols) ==
    LET F[k \in 0..Len(config)] ==
            IF k = 0 THEN <<>>
            ELSE IF config[k].x_column \in cols
                 THEN Append(F[k - 1], k) ELSE F[k - 1]
    IN F[Len(config)]

\* ------------------------------------------------------------------- main

\* parser.parse_args(): --input is given or not.
ParseArgs ==
    /\ pc = "parse_args"
    /\ \E b \in BOOLEAN : input' = b
    /\ pc' = "load_config"
    /\ UNCHANGED <<config, df, work, i, gg, arg, yi, figs, exc, exitCode,
                   printed, results>>
    /\ UNCHANGED histVars

\* What open() and yaml.safe_load() can do with the --config path.
ConfigOutcomes == {"ok", "FileNotFoundError", "YAMLError", "PermissionError"}

\* config = load_config(args.config)
LoadConfig ==
    /\ pc = "load_config"
    /\ \E o \in ConfigOutcomes :
          CASE o = "ok" ->
                 /\ \E c \in Configs : config' = c
                 /\ pc' = IF input THEN "load_input" ELSE "load_examples"
                 /\ UNCHANGED <<exc, exitCode, printed>>
            [] o = "FileNotFoundError" ->
                 /\ SysExit("Error: Config file not found!")
                 /\ UNCHANGED config
            [] o = "YAMLError" ->
                 /\ SysExit("Error parsing config file")
                 /\ UNCHANGED config
            [] o = "PermissionError" ->
                 /\ Uncaught("PermissionError")
                 /\ UNCHANGED <<config, printed>>
    /\ UNCHANGED <<input, df, work, i, gg, arg, yi, figs, results>>
    /\ UNCHANGED histVars

\* What pd.read_csv() can do with a path.
DataOutcomes == {"ok", "FileNotFoundError", "EmptyDataError", "Exception"}

\* load_dataframe(path); on success main goes on at `next`.
LoadDataframe(path, next) ==
    \E o \in DataOutcomes :
        CASE o = "ok" ->
               /\ \E cols \in Tables : df' = [df EXCEPT ![path] = cols]
               /\ pc' = next
               /\ UNCHANGED <<exc, exitCode, printed>>
          [] o = "FileNotFoundError" ->
               /\ SysExit("Error: Data file not found!")
               /\ UNCHANGED df
          [] o = "EmptyDataError" ->
               /\ SysExit("Error: Data file is empty!")
               /\ UNCHANGED df
          [] o = "Exception" ->
               /\ SysExit("Error reading data file")
               /\ UNCHANGED df

\* A for-loop starts over the list `graphs` if the table was loaded.
StartLoop(graphs) ==
    /\ work' = IF exc' = "none" THEN graphs ELSE work
    /\ i' = IF exc' = "none" THEN 1 ELSE i

\* df = load_dataframe(args.input)
LoadInput ==
    /\ pc = "load_input"
    /\ LoadDataframe(InputPath, "loop_input")
    /\ StartLoop(AllGraphs)
    /\ UNCHANGED <<input, config, gg, arg, yi, figs, results>>
    /\ UNCHANGED histVars

\* df_examples = load_dataframe('data/examples.csv'); examples_graphs = [...]
LoadExamples ==
    /\ pc = "load_examples"
    /\ LoadDataframe(ExamplesPath, "loop_examples")
    /\ StartLoop(Matching(df'[ExamplesPath]))
    /\ UNCHANGED <<input, config, gg, arg, yi, figs, results>>
    /\ UNCHANGED histVars

\* Matching, less the entries already rendered against examples.csv.
MatchingOnce(cols) ==
    SelectSeq(Matching(cols),
              LAMBDA g : \A k \in 1..Len(calls) : calls[k][2] # g)

\* LoadFibonacci rendering each entry against the first matching dataset only.
LoadFibonacci_once ==
    /\ pc = "load_fibonacci"
    /\ LoadDataframe(FibonacciPath, "loop_fibonacci")
    /\ StartLoop(MatchingOnce(df'[FibonacciPath]))
    /\ UNCHANGED <<input, config, gg, arg, yi, figs, results>>
    /\ UNCHANGED histVars

\* df_fibonacci = load_dataframe('data/fibonacci.csv'); fibonacci_graphs = [...]
LoadFibonacci ==
    /\ pc = "load_fibonacci"
    /\ LoadDataframe(FibonacciPath, "loop_fibonacci")
    /\ StartLoop(Matching(df'[FibonacciPath]))
    /\ UNCHANGED <<input, config, gg, arg, yi, figs, results>>
    /\ UNCHANGED histVars

\* generate_graph(df, graph): control enters the callee.
Call(path, g) ==
    /\ gg' = "clf"
    /\ arg' = <<path, g>>
    /\ calls' = Append(calls, <<path, g>>)

\* for graph in config['graphs']: if graph['x_column'] in df.columns: ...
InputLoop ==
    /\ pc = "loop_input" /\ gg = "idle"
    /\ IF i > Len(work)
       THEN /\ pc' = "exit" /\ exitCode' = 0
            /\ UNCHANGED <<i, gg, arg, calls>>
       ELSE /\ IF config[work[i]].x_column \in df[InputPath]
               THEN /\ Call(InputPath, work[i])
                    /\ UNCHANGED i
               ELSE /\ i' = i + 1
                    /\ UNCHANGED <<gg, arg, calls>>
            /\ UNCHANGED <<pc, exitCode>>
    /\ UNCHANGED <<input, config, df, work, yi, figs, exc, printed, results,
                   files, dirs, lastSaved>>

\* for graph in examples_graphs: generate_graph(df_examples, graph)
ExamplesLoop ==
    /\ pc = "loop_examples" /\ gg = "idle"
    /\ IF i > Len(work)
       THEN /\ pc' = "load_fibonacci"
            /\ UNCHANGED <<gg, arg, calls>>
       ELSE /\ Call(ExamplesPath, work[i])
            /\ UNCHANGED pc
    /\ UNCHANGED <<input, config, df, work, i, yi, figs, exc, exitCode,
                   printed, results, files, dirs, lastSaved>>

\* for graph in fibonacci_graphs: generate_graph(df_fibonacci, graph)
FibonacciLoop ==
    /\ pc = "loop_fibonacci" /\ gg = "idle"
    /\ IF i > Len(work)
       THEN /\ pc' = "exit" /\ exitCode' = 0
            /\ UNCHANGED <<gg, arg, calls>>
       ELSE /\ Call(FibonacciPath, work[i])
            /\ UNCHANGED <<pc, exitCode>>
    /\ UNCHANGED <<input, config, df, work, i, yi, figs, exc, printed,
                   results, files, dirs, lastSaved>>

\* ------------------------------------------------------------------ pyplot

BlankFigure(size) == [size |-> size, series |-> <<>>, title |-> 0]

\* plt.clf() is gcf().clear(): gcf() opens a figure of the default size when
\* none is open, and clear() empties the current figure, keeping its size.
Clf(fs) ==
    IF fs = <<>> THEN <<BlankFigure(DefaultSize)>>
    ELSE [fs EXCEPT ![Len(fs)] = BlankFigure(@.size)]

\* plt.figure(figsize=...) opens one more figure and makes it current.
Figure(fs, size) == Append(fs, BlankFigure(size))

\* plt.plot / plt.scatter / plt.bar: one more series on the current figure.
Style(kind) ==
    CASE kind = "line" -> "line"
      [] kind = "plot" -> "line+marker"
      [] kind = "scatter" -> "markers"
      [] kind = "bar" -> "bars"

\* Draw without label=y_column.
Draw_unlabelled(fs, kind, y_column) ==
    [fs EXCEPT ![Len(fs)].series =
        Append(@, [style |-> Style(kind), label |-> ""])]

Draw(fs, kind, y_column) ==
    [fs EXCEPT ![Len(fs)].series =
        Append(@, [style |-> Style(kind), label |-> y_column])]

\* plt.title(...), plt.xlabel(...), plt.ylabel(...) on the current figure.
Title(fs, t) == [fs EXCEPT ![Len(fs)].title = t]

\* plt.close() closes the current figure only; the one opened before it, if
\* any, becomes current.
Close(fs) == IF fs = <<>> THEN fs ELSE SubSeq(fs, 1, Len(fs) - 1)

\* ---------------------------------------------------------- generate_graph

graph_config == config[arg[2]]
columns == df[arg[1]]

\* generate_graph returns to the for-loop that called it.
Return(r) ==
    /\ gg' = "idle"
    /\ results' = Append(results, r)
    /\ i' = i + 1

\* plt.clf()
GG_clf ==
    /\ gg = "clf" /\ Running
    /\ figs' = Clf(figs)
    /\ gg' = "figure"
    /\ UNCHANGED <<pc, input, config, df, work, i, arg, yi, exc, exitCode,
                   printed, results>>
    /\ UNCHANGED histVars

\* if 'figure_size' in graph_config: plt.figure(figsize=...)
GG_figure ==
    /\ gg = "figure" /\ Running
    /\ figs' = IF graph_config.figure_size # "absent"
               THEN Figure(figs, graph_config.figure_size) ELSE figs
    /\ gg' = "x"
    /\ UNCHANGED <<pc, input, config, df, work, i, arg, yi, exc, exitCode,
                   printed, results>>
    /\ UNCHANGED histVars

\* x = df[graph_config['x_column']], and the for-loop is entered.
GG_x ==
    /\ gg = "x" /\ Running
    /\ IF graph_config.x_column \in columns
       THEN /\ gg' = IF Len(graph_config.y_columns) = 0 THEN "labels" ELSE "y"
            /\ yi' = 1
            /\ UNCHANGED <<pc, exc, exitCode>>
       ELSE /\ Uncaught("KeyError")
            /\ UNCHANGED <<gg, yi>>
    /\ UNCHANGED <<input, config, df, work, i, arg, figs, printed, results>>
    /\ UNCHANGED histVars

\* One pass of `for y_column in graph_config['y_columns']`.
GG_y ==
    /\ gg = "y" /\ Running
    /\ LET y_column == graph_config.y_columns[yi]
           kind == graph_config.kind
       IN  IF y_column \notin columns
           THEN /\ Uncaught("KeyError")
                /\ UNCHANGED <<gg, yi, i, figs, printed, results>>
           ELSE IF kind \in SupportedKinds
           THEN /\ figs' = Draw(figs, kind, y_column)
                /\ IF yi < Len(graph_config.y_columns)
                   THEN yi' = yi + 1 /\ UNCHANGED gg
                   ELSE gg' = "labels" /\ UNCHANGED yi
                /\ UNCHANGED <<pc, exc, exitCode, i, printed, results>>
           ELSE /\ printed' = printed \cup {"[WARNING] Unsupported graph type"}
                /\ Return("unsupported")
                /\ UNCHANGED <<pc, exc, exitCode, yi, figs>>
    /\ UNCHANGED <<input, config, df, work, arg>>
    /\ UNCHANGED histVars

\* plt.title .. plt.tight_layout
GG_labels ==
    /\ gg = "labels" /\ Running
    /\ figs' = Title(figs, arg[2])
    /\ gg' = "save"
    /\ UNCHANGED <<pc, input, config, df, work, i, arg, yi, exc, exitCode,
                   printed, results>>
    /\ UNCHANGED histVars

\* GG_save without the except clause: a failed savefig leaves generate_graph
\* as an exception (the finally clause still closes the figure).
GG_save_uncaught ==
    /\ gg = "save" /\ Running
    /\ dirs' = dirs \cup {arg[2]}
    /\ \E saved \in BOOLEAN :
          IF saved
          THEN /\ files' = files \cup {arg[2]}
               /\ lastSaved' = figs[Len(figs)]
               /\ Return("saved")
               /\ UNCHANGED <<printed, pc, exc, exitCode>>
          ELSE /\ Uncaught("OSError")
               /\ UNCHANGED <<files, lastSaved, printed, gg, results, i>>
    /\ figs' = Close(figs)
    /\ UNCHANGED <<input, config, df, work, arg, yi, calls>>

\* os.makedirs(output_dir, exist_ok=True); try: plt.savefig(...) except
\* Exception: print(...) finally: plt.close()
GG_save ==
    /\ gg = "save" /\ Running
    /\ dirs' = dirs \cup {arg[2]}
    /\ \E saved \in BOOLEAN :
          IF saved
          THEN /\ files' = files \cup {arg[2]}
               /\ lastSaved' = figs[Len(figs)]
               /\ Return("saved")
               /\ UNCHANGED printed
          ELSE /\ printed' = printed \cup {"Error saving graph"}
               /\ Return("savefail")
               /\ UNCHANGED <<files, lastSaved>>
    /\ figs' = Close(figs)
    /\ UNCHANGED <<pc, input, config, df, work, arg, yi, exc, exitCode, calls>>

Next ==
    \/ ParseArgs
    \/ LoadConfig
    \/ LoadInput
    \/ LoadExamples
    \/ LoadFibonacci
    \/ InputLoop
    \/ ExamplesLoop
    \/ FibonacciLoop
    \/ GG_clf
    \/ GG_figure
    \/ GG_x
    \/ GG_y
    \/ GG_labels
    \/ GG_save

Spec == Init /\ [][Next]_vars

TypeOK ==
    /\ pc \in {"parse_args", "load_config", "load_input", "loop_input",
                "load_examples", "loop_examples", "load_fibonacci",
                "loop_fibonacci", "exit"}
    /\ gg \in {"idle", "clf", "figure", "x", "y", "labels", "save"}
    /\ exitCode \in {-1, 0, 1}
    /\ \A k \in 1..Len(results) :
          results[k] \in {"saved", "savefail", "unsupported"}

\* ----------------------------------------------------------- vocabulary

Positions == 1..Len(config)

\* The places in the invocation log where position g was rendered against path.
CallsOf(path, g) == {k \in 1..Len(calls) : calls[k] = <<path, g>>}

\* The invocations of position g, against any table.
CallsOfSpec(g) == {k \in 1..Len(calls) : calls[k][2] = g}

Recoverable == {"unsupported", "savefail"}

\* main returned: every for-loop ran to its end.
Completed == pc = "exit" /\ exc = "none"

\* The for-loop over the table read from path ran to its end.
LoopDone(path) ==
    /\ df[path] # {}
    /\ \/ Completed
       \/ path = ExamplesPath /\
            (pc = "load_fibonacci" \/ df[FibonacciPath] # {} \/ exc = "SystemExit")

\* The surface generate_graph draws on and saves: pyplot's current figure.
Surface == figs[Len(figs)]

\* The size the spec asks for.
WantedSize(g) ==
    IF config[g].figure_size = "absent" THEN DefaultSize
    ELSE config[g].figure_size

\* One series per entry of y_columns, in order, labelled with the column.
WantedSeries(g) ==
    [k \in 1..Len(config[g].y_columns) |->
        [style |-> Style(config[g].kind), label |-> config[g].y_columns[k]]]

Drawing == gg \in {"y", "labels", "save"} /\ Running

\* ------------------------------------------------------------------ claims

\* C1 as stated: in the default mode every ChartSpec is passed to
\* generate_graph at most once during the run, also when its x_column is in
\* both default datasets.
C1_AtMostOncePerRun ==
    ~input => \A g \in Positions : Cardinality(CallsOfSpec(g)) <= 1

\* C1 as amended: in the default mode a ChartSpec is passed to
\* generate_graph at most once per default dataset, against examples.csv
\* before fibonacci.csv, and a spec whose x_column is in both datasets is
\* rendered against both of them once both for-loops have run to their end.
C1_AtMostOncePerDataset ==
    ~input =>
      \A g \in Positions :
        /\ \A path \in Paths : Cardinality(CallsOf(path, g)) <= 1
        /\ \A k \in CallsOf(ExamplesPath, g), l \in CallsOf(FibonacciPath, g) :
              k < l
        /\ (Completed /\ config[g].x_column \in
                df[ExamplesPath] \cap df[FibonacciPath])
           => CallsOf(ExamplesPath, g) # {} /\ CallsOf(FibonacciPath, g) # {}

C1_Witness ==
    /\ ~input /\ Completed
    /\ \E g \in Positions :
          /\ config[g].x_column \in df[ExamplesPath] \cap df[FibonacciPath]
          /\ Cardinality(CallsOfSpec(g)) = 2

\* C2: at every point of every run at most one figure is open.
C2_AtMostOneFigure == Len(figs) <= 1

\* C3: generate_graph is only invoked with a table that has the spec's
\* x_column and every one of its y_columns, so no column lookup inside it
\* fails.
C3_ColumnsPresent ==
    /\ \A k \in 1..Len(calls) :
         LET path == calls[k][1]
             g == calls[k][2]
         IN  /\ config[g].x_column \in df[path]
             /\ \A n \in 1..Len(config[g].y_columns) :
                   config[g].y_columns[n] \in df[path]
    /\ exc # "KeyError"

\* C4: a call with a spec of unsupported kind writes no file, makes no
\* output directory, looks at no y_column after the first, and returns
\* without raising.
C4_UnsupportedKind ==
    /\ \A g \in Positions :
         config[g].kind \notin SupportedKinds => g \notin files /\ g \notin dirs
    /\ (arg # NoArg /\ graph_config.kind \notin SupportedKinds) =>
         /\ gg \notin {"labels", "save"}
         /\ (gg \in {"y", "idle"} => yi = 1)
         /\ exc # "KeyError"
         /\ (gg = "idle" => results[Len(results)] = "unsupported")

\* C5: the step in which a recoverable failure can happen (the savefig
\* step, and the dispatch on a kind that is not supported) always ends the
\* call with the process running in the same for-loop, which goes on with
\* the next entry; and a run whose for-loops all ran to their end exits with
\* status 0 with every entry whose x_column is in a loaded table rendered
\* against it, however many recoverable failures there were.
C5_RecoverableContained ==
    /\ [][((Running /\ gg = "save")
           \/ (Running /\ gg = "y" /\ graph_config.kind \notin SupportedKinds
                /\ graph_config.y_columns[yi] \in columns))
            => (/\ gg' = "idle"
                /\ Len(results') = Len(results) + 1
                /\ exc' = "none" /\ exitCode' = -1
                /\ pc' = pc /\ i' = i + 1 /\ work' = work)]_vars
    /\ [](Completed =>
            /\ exitCode = 0
            /\ \A path \in Paths, g \in Positions :
                  config[g].x_column \in df[path] => CallsOf(path, g) # {})

C5_Witness ==
    /\ Completed /\ exitCode = 0
    /\ \E k \in 1..Len(results) : \E l \in 1..Len(results) :
          /\ k < l /\ results[k] = "unsupported" /\ results[l] = "savefail"
          /\ calls[k][1] = calls[l][1]

\* C6: every failure of load_config and of load_dataframe ends the process
\* with status 1 after an "Error" message, with no exception leaving the
\* loader and no generate_graph call after it.
ErrorMessages ==
    {"Error: Config file not found!", "Error parsing config file",
     "Error: Data file not found!", "Error: Data file is empty!",
     "Error reading data file"}

C6_LoaderFailuresExit ==
    (pc = "exit" /\ exc \notin {"none", "KeyError"}) =>
        /\ exc = "SystemExit"
        /\ exitCode = 1
        /\ printed \cap ErrorMessages # {}
        /\ gg = "idle"

\* C7: against every table main loads, generate_graph is invoked for an
\* entry only if the entry's x_column is in the table, in the order of
\* `graphs`, for every such entry once the for-loop over that table has run
\* to its end; and with --input only the given file is loaded.
C7_InvokedIffMatching ==
    /\ \A k \in 1..Len(calls) :
          config[calls[k][2]].x_column \in df[calls[k][1]]
    /\ \A k \in 1..Len(calls), l \in 1..Len(calls) :
          (k < l /\ calls[k][1] = calls[l][1]) => calls[k][2] < calls[l][2]
    /\ \A path \in Paths, g \in Positions :
          (LoopDone(path) /\ config[g].x_column \in df[path])
             => CallsOf(path, g) # {}
    /\ input => df[ExamplesPath] = {} /\ df[FibonacciPath] = {}
    /\ ~input => df[InputPath] = {}

C7_Witness ==
    /\ Completed /\ input
    /\ Len(config) = 2
    /\ config[1].x_column \notin df[InputPath]
    /\ config[2].x_column \in df[InputPath]
    /\ calls = <<(<<InputPath, 2>>)>>

\* C8: once a generate_graph call has returned no figure is open.
C8_ReleasedOnReturn == (gg = "idle" /\ Running) => figs = <<>>

\* C9: the surface a chart is drawn on has the spec's figure_size when the
\* key is present and the default size otherwise, whatever calls came before.
C9_SurfaceSize == Drawing => Surface.size = WantedSize(arg[2])

\* C10: the figure handed to savefig carries exactly one series per entry
\* of the spec's y_columns, in order, each labelled with its column, and the
\* title of this spec; nothing of an earlier call is on it.
C10_NoBleed ==
    /\ (gg = "save" /\ Running) =>
          Surface.series = WantedSeries(arg[2]) /\ Surface.title = arg[2]
    /\ (gg = "idle" /\ results # <<>> /\ results[Len(results)] = "saved") =>
          lastSaved.series = WantedSeries(arg[2]) /\ lastSaved.title = arg[2]

\* A chart saved from the figure an earlier chart's call left open.
C10_Witness ==
    /\ gg = "idle" /\ Len(results) >= 2
    /\ results[Len(results)] = "saved" /\ results[Len(results) - 1] = "saved"
    /\ calls[Len(calls)][2] # calls[Len(calls) - 1][2]
    /\ config[calls[Len(calls) - 1][2]].figure_size # "absent"
    /\ config[arg[2]].figure_size = "absent"
    /\ lastSaved.series = WantedSeries(arg[2])

====
